---- MODULE Spec2Model ----
(***************************************************************************)
(* Model of nusb's device discovery back ends:                             *)
(*   - src/platform/linux_usbfs/enumeration.rs: list_devices, probe_device *)
(*     and the sysfs attribute reader;                                     *)
(*   - src/platform/windows_winusb/hub.rs: HubHandle and HubPort.          *)
(* Text is a sequence of one-character strings, an Option is a sequence of *)
(* length 0 (None) or 1 (Some).                                            *)
(***************************************************************************)
EXTENDS Integers, Sequences, FiniteSets, TLC

None == <<>>
Some(x) == <<x>>
IsSome(o) == Len(o) = 1
Unwrap(o) == o[1]

(***************************************************************************)
(* Text helpers: str::trim, str::split, integer parsing.                   *)
(***************************************************************************)

\* The white space str::trim removes (of the characters the model writes).
WhiteSpace == {" ", "\n", "\t"}

RECURSIVE trim_start(_)
trim_start(s) ==
    IF s # <<>> /\ Head(s) \in WhiteSpace THEN trim_start(Tail(s)) ELSE s

RECURSIVE trim_end(_)
trim_end(s) ==
    IF s # <<>> /\ s[Len(s)] \in WhiteSpace
    THEN trim_end(SubSeq(s, 1, Len(s) - 1))
    ELSE s

trim(s) == trim_end(trim_start(s))

LowerDigits == <<"0", "1", "2", "3", "4", "5", "6", "7", "8", "9",
                 "a", "b", "c", "d", "e", "f">>
UpperDigits == <<"0", "1", "2", "3", "4", "5", "6", "7", "8", "9",
                 "A", "B", "C", "D", "E", "F">>

\* char::to_digit(radix): Some(value) for a digit of the radix, else None.
to_digit(c, radix) ==
    IF \E i \in 1..radix : LowerDigits[i] = c \/ UpperDigits[i] = c
    THEN Some((CHOOSE i \in 1..radix : LowerDigits[i] = c \/ UpperDigits[i] = c) - 1)
    ELSE None

\* The checked accumulation of from_str_radix: None on an invalid digit or
\* when the value leaves the type (bits wide).
RECURSIVE accumulate(_, _, _, _)
accumulate(digits, radix, bits, acc) ==
    IF digits = <<>> THEN Some(acc)
    ELSE LET d == to_digit(Head(digits), radix)
         IN  IF ~IsSome(d) THEN None
             ELSE LET v == acc * radix + Unwrap(d)
                  IN  IF v >= 2 ^ bits THEN None
                      ELSE accumulate(Tail(digits), radix, bits, v)

\* uN::from_str_radix(src, radix) for an unsigned type of the given width:
\* empty text fails, a lone sign fails, one leading "+" is accepted, "-" is
\* not a digit.
from_str_radix(src, radix, bits) ==
    IF src = <<>> THEN None
    ELSE IF Len(src) = 1 /\ Head(src) \in {"+", "-"} THEN None
    ELSE IF Head(src) = "+" THEN accumulate(Tail(src), radix, bits, 0)
    ELSE accumulate(src, radix, bits, 0)

\* str::split(sep): the pieces between separators, at least one piece.
RECURSIVE split(_, _)
split(s, sep) ==
    IF \E i \in 1..Len(s) : s[i] = sep
    THEN LET i == CHOOSE i \in 1..Len(s) :
                      s[i] = sep /\ \A j \in 1..(i - 1) : s[j] # sep
         IN  <<SubSeq(s, 1, i - 1)>> \o split(SubSeq(s, i + 1, Len(s)), sep)
    ELSE <<s>>

\* Iterator<Item = Option<T>>::collect::<Option<Vec<T>>>(): None as soon as
\* one item is None, else Some of all the values.
RECURSIVE collect_until_none(_)
collect_until_none(items) ==
    IF items = <<>> \/ ~IsSome(Head(items)) THEN Some(<<>>)
    ELSE Some(<<Unwrap(Head(items))>> \o Unwrap(collect_until_none(Tail(items))))

RECURSIVE collect_option(_)
collect_option(items) ==
    IF items = <<>> THEN Some(<<>>)
    ELSE IF ~IsSome(Head(items)) THEN None
    ELSE LET rest == collect_option(Tail(items))
         IN  IF IsSome(rest) THEN Some(<<Unwrap(Head(items))>> \o Unwrap(rest))
             ELSE None

\* The permutations of a finite set, as sequences: the orders in which a
\* directory's entries can be enumerated.
Perms(S) ==
    {f \in [1..Cardinality(S) -> S] : \A e \in S : \E i \in DOMAIN f : f[i] = e}

(***************************************************************************)
(* The sysfs tree. A file is Some(text) and a missing or unreadable file   *)
(* is None; a directory is [attrs, kids]: its attribute files by name and  *)
(* its subdirectories by name.                                             *)
(***************************************************************************)

NoFile == None
File(text) == Some(text)

\* probe_device's device-level reads, in the order the code performs them,
\* each with the grammar it is parsed with (decimal for read_attr, hexadecimal
\* for read_attr_hex) and the width of the DeviceInfo field it fills (u8 or
\* u16), and whether the read is followed by `?`.
ReadOrder == <<
    [name |-> "busnum",          kind |-> "dec8",    required |-> TRUE],
    [name |-> "devnum",          kind |-> "dec8",    required |-> TRUE],
    [name |-> "devpath",         kind |-> "devpath", required |-> FALSE],
    [name |-> "idVendor",        kind |-> "hex16",   required |-> TRUE],
    [name |-> "idProduct",       kind |-> "hex16",   required |-> TRUE],
    [name |-> "bcdDevice",       kind |-> "hex16",   required |-> TRUE],
    [name |-> "bDeviceClass",    kind |-> "hex8",    required |-> TRUE],
    [name |-> "bDeviceSubClass", kind |-> "hex8",    required |-> TRUE],
    [name |-> "bDeviceProtocol", kind |-> "hex8",    required |-> TRUE],
    [name |-> "bMaxPacketSize0", kind |-> "dec8",    required |-> TRUE],
    [name |-> "speed",           kind |-> "speed",   required |-> FALSE],
    [name |-> "manufacturer",    kind |-> "string",  required |-> FALSE],
    [name |-> "product",         kind |-> "string",  required |-> FALSE],
    [name |-> "serial",          kind |-> "string",  required |-> FALSE] >>

\* The reads of one interface subdirectory, in order: the first four are
\* followed by `.ok()?`, the interface string by `.ok()`.
IfReadOrder == <<
    [name |-> "bInterfaceNumber",   kind |-> "hex8",   required |-> TRUE],
    [name |-> "bInterfaceClass",    kind |-> "hex8",   required |-> TRUE],
    [name |-> "bInterfaceSubClass", kind |-> "hex8",   required |-> TRUE],
    [name |-> "bInterfaceProtocol", kind |-> "hex8",   required |-> TRUE],
    [name |-> "interface",          kind |-> "string", required |-> FALSE] >>

DevAttrNames == {ReadOrder[i].name : i \in DOMAIN ReadOrder}
IfAttrNames == {IfReadOrder[i].name : i \in DOMAIN IfReadOrder}

\* The parse closure parse_attr is given, by grammar: s.parse::<u8>(),
\* from_hex_str for u8 and u16, and String::from_str, which never fails.
parse_text(kind, s) ==
    CASE kind = "dec8"  -> from_str_radix(s, 10, 8)
      [] kind = "hex8"  -> from_str_radix(s, 16, 8)
      [] kind = "hex16" -> from_str_radix(s, 16, 16)
      [] OTHER          -> Some(s)

\* SysfsPath::parse_attr: read the file, trim, parse. The error carries the
\* attribute's path (directory joined with the attribute name) and its kind;
\* a parse error keeps the untrimmed text.
parse_attr(attrs, path, attr, kind) ==
    LET content == IF attr \in DOMAIN attrs THEN attrs[attr] ELSE NoFile
        attr_path == Append(path, attr)
    IN  IF ~IsSome(content)
        THEN [ok |-> FALSE, err |-> [path |-> attr_path, kind |-> "Io", text |-> <<>>]]
        ELSE LET v == Unwrap(content)
                 parsed == parse_text(kind, trim(v))
             IN  IF IsSome(parsed)
                 THEN [ok |-> TRUE, v |-> Unwrap(parsed)]
                 ELSE [ok |-> FALSE,
                       err |-> [path |-> attr_path, kind |-> "Parse", text |-> v]]

\* Result::ok()
ok(r) == IF r.ok THEN Some(r.v) ELSE None

\* v.parse::<u8>().ok() of one devpath segment.
parse_hop(seg) == from_str_radix(seg, 10, 8)

\* The port chain of probe_device: read devpath as text, split on '.',
\* parse every segment as u8, collect into Option<Vec<u8>>, default empty.
port_chain_of(r) ==
    IF ~r.ok THEN <<>>
    ELSE LET segs == split(r.v, ".")
             hops == collect_option([i \in DOMAIN segs |-> parse_hop(segs[i])])
         IN  IF IsSome(hops) THEN Unwrap(hops) ELSE <<>>

\* Speed::from_str: the lookup of the speed attribute's text.
Speed_from_str(s) ==
    CASE s = <<"1", ".", "5">>           -> Some("Low")
      [] s = <<"1", "2">>                -> Some("Full")
      [] s = <<"4", "8", "0">>           -> Some("High")
      [] s = <<"5", "0", "0", "0">>      -> Some("Super")
      [] s = <<"1", "0", "0", "0", "0">> -> Some("SuperPlus")
      [] OTHER                           -> None

\* The value a device-level read contributes to the DeviceInfo once it is
\* known not to abort the probe.
field_value(a, r) ==
    CASE a.required         -> r.v
      [] a.kind = "devpath" -> port_chain_of(r)
      [] a.kind = "speed"   -> IF r.ok THEN Speed_from_str(r.v) ELSE None
      [] OTHER              -> ok(r)

\* format!("{busnum:03}"): decimal, zero-padded to at least three digits.
RECURSIVE decimal(_)
decimal(n) ==
    IF n < 10 THEN <<LowerDigits[n + 1]>>
    ELSE Append(decimal(n \div 10), LowerDigits[(n % 10) + 1])

format_03(n) ==
    LET d == decimal(n)
    IN  IF Len(d) >= 3 THEN d ELSE [i \in 1..(3 - Len(d)) |-> "0"] \o d

\* The name test of list_devices: every byte is '0'..'9', '-' or '.'.
is_device_name_no_colon(name) == \A i \in DOMAIN name : name[i] # ":"

is_device_name(name) ==
    \A i \in DOMAIN name :
        name[i] \in {"0", "1", "2", "3", "4", "5", "6", "7", "8", "9", "-", "."}

\* The name test of probe_device's children filter: the name contains ':'.
is_interface_name(name) == \E i \in DOMAIN name : name[i] = ":"

\* Iterator::filter over the enumerated subdirectory names with that test.
RECURSIVE filter_interfaces(_)
filter_interfaces(names) ==
    IF names = <<>> THEN <<>>
    ELSE IF is_interface_name(Head(names))
    THEN <<Head(names)>> \o filter_interfaces(Tail(names))
    ELSE filter_interfaces(Tail(names))

\* sort_unstable_by_key(|i| i.interface_number): the results the sort may
\* give, every ordering of the elements that is sorted by the key (the order
\* of equal keys is unspecified).
sort_skipped(v) == {v}

sort_unstable_by_key(v) ==
    {w \in {[i \in DOMAIN v |-> v[p[i]]] : p \in Perms(DOMAIN v)} :
        \A i \in 1..(Len(w) - 1) : w[i].interface_number <= w[i + 1].interface_number}

\* InterfaceInfo { .. } from the five values read, in IfReadOrder's order.
InterfaceInfo(v) ==
    [interface_number |-> v[1], class |-> v[2], subclass |-> v[3],
     protocol |-> v[4], interface_string |-> v[5]]

\* DeviceInfo { .. } from the values read, in ReadOrder's order.
DeviceInfo(path, v, interfaces) ==
    [path |-> path, busnum |-> v[1], bus_id |-> format_03(v[1]),
     device_address |-> v[2], port_chain |-> v[3], vendor_id |-> v[4],
     product_id |-> v[5], device_version |-> v[6], class |-> v[7],
     subclass |-> v[8], protocol |-> v[9], max_packet_size_0 |-> v[10],
     speed |-> v[11], manufacturer_string |-> v[12], product_string |-> v[13],
     serial_number |-> v[14], interfaces |-> interfaces]

(***************************************************************************)
(* State.                                                                  *)
(***************************************************************************)
VARIABLES
    sysfs,      \* the device tree: entry name -> [attrs, kids]
    root,       \* the entries read_dir(SYSFS_PREFIX) yields, in its order
    dirents,    \* the entries list_devices has not taken yet
    pc,         \* "list" | "probe" | "children" | "iface"
    probe,      \* the locals of the probe_device call in progress
    out,        \* the DeviceInfo records list_devices has yielded
    warned,     \* the SysfsErrors list_devices has logged and dropped
    probed,     \* the entry names probe_device was called on
    reads,      \* per entry, the device-level reads its probe has done
    unplugged,  \* per entry, `reads` when the device vanished, else -1
    given,      \* the devpath segments the tree was built from (SpecPortChain)
    hub,        \* the HubHandle or HubPort the caller holds
    hpc,        \* get_descriptor: "idle" | "issued" | "returned" | "panicked"
    req,        \* the USB_DESCRIPTOR_REQUEST handed to DeviceIoControl
    io,         \* what DeviceIoControl reported
    res,        \* get_descriptor's result
    heap,       \* [allocs, deallocs] of the request buffer
    calls,      \* get_descriptor calls made
    child       \* the last by_child_devinst call: its inputs and result

linux_vars == <<sysfs, root, dirents, pc, probe, out, warned, probed, reads, unplugged,
                given>>
hub_vars == <<hub, hpc, req, io, res, heap, calls, child>>
vars == <<sysfs, root, dirents, pc, probe, out, warned, probed, reads, unplugged,
          given, hub, hpc, req, io, res, heap, calls, child>>

IdleProbe ==
    [path |-> <<>>, k |-> 0, values |-> <<>>, kidq |-> <<>>, j |-> 0,
     ifvalues |-> <<>>, interfaces |-> <<>>]

(***************************************************************************)
(* list_devices and probe_device, one action per directory entry taken and *)
(* per file-system read, so that the tree can change between two reads.    *)
(***************************************************************************)

\* The closure of list_devices on the next directory entry: an entry that
\* failed to read (None) or whose name is not device-shaped yields nothing;
\* otherwise probe_device is entered. (read_dir of the root itself has
\* succeeded: its failure is list_devices' only Err, before any entry.)
ReadDirNext ==
    /\ pc = "list"
    /\ dirents # <<>>
    /\ dirents' = Tail(dirents)
    /\ LET entry == Head(dirents)
       IN  IF IsSome(entry) /\ is_device_name(Unwrap(entry))
           THEN /\ pc' = "probe"
                /\ probe' = [IdleProbe EXCEPT !.path = Unwrap(entry), !.k = 1]
                /\ probed' = probed \cup {Unwrap(entry)}
           ELSE UNCHANGED <<pc, probe, probed>>
    /\ UNCHANGED <<sysfs, root, out, warned, reads, unplugged, given, hub_vars>>

\* Whether a device-level read ends the probe: the required reads are
\* followed by `?`, the others by `.ok()`.
aborts_any(a, r) == ~r.ok

aborts(a, r) == a.required /\ ~r.ok

\* list_devices on a probe error: `.inspect_err(warn).ok()` logs it and
\* yields nothing for this entry; the iteration over the root goes on.
DropDevice_abort(e) ==
    /\ warned' = Append(warned, e)
    /\ dirents' = <<>>

DropDevice(e) ==
    /\ warned' = Append(warned, e)
    /\ dirents' = dirents

\* One device-level read of probe_device. A required read that fails (`?`)
\* returns the SysfsError to list_devices.
ProbeReadAttr ==
    /\ pc = "probe"
    /\ LET a == ReadOrder[probe.k]
           r == parse_attr(sysfs[probe.path].attrs, <<probe.path>>, a.name, a.kind)
       IN  IF aborts(a, r)
           THEN /\ DropDevice(r.err)
                /\ pc' = "list"
                /\ probe' = IdleProbe
                /\ out' = out
           ELSE /\ probe' = [probe EXCEPT !.values = Append(@, field_value(a, r)),
                                          !.k = IF @ = Len(ReadOrder) THEN 0 ELSE @ + 1]
                /\ pc' = IF probe.k = Len(ReadOrder) THEN "children" ELSE "probe"
                /\ UNCHANGED <<out, warned, dirents>>
    /\ reads' = [reads EXCEPT ![probe.path] = @ + 1]
    /\ UNCHANGED <<sysfs, root, probed, unplugged, given, hub_vars>>

\* path.children() and the ':' filter: the subdirectories, in whatever order
\* read_dir gives them (none when read_dir fails).
ProbeReadChildren ==
    /\ pc = "children"
    /\ \E order \in Perms(DOMAIN sysfs[probe.path].kids) :
           probe' = [probe EXCEPT !.kidq = filter_interfaces(order), !.j = 1]
    /\ pc' = "iface"
    /\ UNCHANGED <<sysfs, root, dirents, out, warned, probed, reads, unplugged, given, hub_vars>>

\* One read in the flat_map closure over the interface subdirectories: a
\* failure of one of the first four (`.ok()?`) skips the subdirectory, the
\* interface string is optional, and after it the InterfaceInfo is collected.
ProbeReadInterface ==
    /\ pc = "iface"
    /\ probe.kidq # <<>>
    /\ LET kid == Head(probe.kidq)
           kids == sysfs[probe.path].kids
           attrs == IF kid \in DOMAIN kids THEN kids[kid] ELSE <<>>
           a == IfReadOrder[probe.j]
           r == parse_attr(attrs, <<probe.path, kid>>, a.name, a.kind)
       IN  IF a.required /\ ~r.ok
           THEN probe' = [probe EXCEPT !.kidq = Tail(@), !.j = 1, !.ifvalues = <<>>]
           ELSE IF probe.j < Len(IfReadOrder)
           THEN probe' = [probe EXCEPT !.j = @ + 1,
                                       !.ifvalues = Append(@, IF a.required THEN r.v ELSE ok(r))]
           ELSE probe' = [probe EXCEPT
                    !.kidq = Tail(@), !.j = 1, !.ifvalues = <<>>,
                    !.interfaces = Append(@, InterfaceInfo(Append(probe.ifvalues, ok(r))))]
    /\ UNCHANGED <<sysfs, root, dirents, pc, out, warned, probed, reads, unplugged, given, hub_vars>>

\* The end of probe_device: sort the interfaces, return Ok(DeviceInfo), which
\* list_devices yields.
ProbeFinish ==
    /\ pc = "iface"
    /\ probe.kidq = <<>>
    /\ \E sorted \in sort_unstable_by_key(probe.interfaces) :
           out' = Append(out, DeviceInfo(probe.path, probe.values, sorted))
    /\ pc' = "list"
    /\ probe' = IdleProbe
    /\ UNCHANGED <<sysfs, root, dirents, warned, probed, reads, unplugged, given, hub_vars>>

\* The environment: a device of the tree is unplugged. Its attribute files
\* and its subdirectories become unreadable.
Vanished == [attrs |-> [a \in DevAttrNames |-> NoFile], kids |-> <<>>]

\* The unplugs one run may hold.
MaxUnplugs == 2

Unplug ==
    /\ Cardinality({n \in DOMAIN unplugged : unplugged[n] >= 0}) < MaxUnplugs
    /\ \E i \in DOMAIN root :
           /\ IsSome(root[i])
           /\ unplugged[Unwrap(root[i])] = -1
           /\ sysfs' = [sysfs EXCEPT ![Unwrap(root[i])] = Vanished]
           /\ unplugged' = [unplugged EXCEPT ![Unwrap(root[i])] = reads[Unwrap(root[i])]]
    /\ UNCHANGED <<root, dirents, pc, probe, out, warned, probed, reads, given, hub_vars>>

(***************************************************************************)
(* HubHandle and HubPort (hub.rs).                                         *)
(***************************************************************************)

\* `let length = 4095;` in get_descriptor.
length_over_ceiling == 4095 + 1

length == 4095

\* mem::size_of::<USB_DESCRIPTOR_REQUEST>(): the packed header, ConnectionIndex
\* (4 bytes), the setup packet (8 bytes) and Data: [u8; 1].
SizeOfRequest == 13

\* The offset of Data[0] in USB_DESCRIPTOR_REQUEST, where the payload starts.
DataOffset == 12

\* Foundation::ERROR_GEN_FAILURE.
ERROR_GEN_FAILURE == 31

\* layout.size(): the buffer allocated, sent and received into.
layout_size == SizeOfRequest + length

\* A usize is held as four 16-bit limbs, most significant first (TLC's
\* integers are 32 bits wide). `d as usize` of an isize d, in two's
\* complement: a negative d is the complement of -d - 1.
Limb == 2 ^ 16

limbs_of(n) == <<0, 0, n \div Limb, n % Limb>>

as_usize(d) ==
    IF d >= 0 THEN limbs_of(d)
    ELSE [i \in 1..4 |-> (Limb - 1) - limbs_of((-d) - 1)[i]]

\* Whether the usize u is at most the (small) number max, and its value then.
usize_le(u, max) ==
    /\ u[1] = 0
    /\ u[2] = 0
    /\ u[3] < Limb \div 2
    /\ u[3] * Limb + u[4] <= max

usize_value(u) == u[3] * Limb + u[4]

\* HubHandle::by_devinst: the first hub interface path of the devinst, opened
\* with create_file; None when there is no path or the open fails.
by_devinst(n_paths, open_ok) ==
    IF n_paths = 0 THEN None
    ELSE IF open_ok THEN Some([kind |-> "handle", port_number |-> 0])
    ELSE None

\* by_child_devinst with the port-number lookup moved before the open.
by_child_devinst_address_first(has_parent, n_paths, open_ok, address) ==
    IF ~has_parent
    THEN [ok |-> FALSE, kind |-> "Other", msg |-> "failed to find parent hub"]
    ELSE IF ~IsSome(address)
    THEN [ok |-> FALSE, kind |-> "NotConnected", msg |-> "Could not find hub port number"]
    ELSE IF ~IsSome(by_devinst(n_paths, open_ok))
    THEN [ok |-> FALSE, kind |-> "Other", msg |-> "failed to open parent hub"]
    ELSE [ok |-> TRUE, v |-> [kind |-> "port", port_number |-> Unwrap(address)]]

\* HubPort::by_child_devinst, given what the configuration manager answers:
\* whether the child has a parent, the parent's hub interface paths, whether
\* create_file succeeds, and the child's DEVPKEY_Device_Address property.
by_child_devinst(has_parent, n_paths, open_ok, address) ==
    IF ~has_parent
    THEN [ok |-> FALSE, kind |-> "Other", msg |-> "failed to find parent hub"]
    ELSE IF ~IsSome(by_devinst(n_paths, open_ok))
    THEN [ok |-> FALSE, kind |-> "Other", msg |-> "failed to open parent hub"]
    ELSE IF ~IsSome(address)
    THEN [ok |-> FALSE, kind |-> "NotConnected", msg |-> "Could not find hub port number"]
    ELSE [ok |-> TRUE, v |-> [kind |-> "port", port_number |-> Unwrap(address)]]

\* The request get_descriptor writes into the buffer.
descriptor_request(port_number, descriptor_type, descriptor_index, language_id) ==
    [ConnectionIndex |-> port_number,
     bmRequest |-> 128,
     bRequest |-> 6,
     wValue |-> ((descriptor_type * 256) + descriptor_index) % Limb,
     wIndex |-> language_id,
     wLength |-> length % Limb,
     nInBufferSize |-> layout_size,
     nOutBufferSize |-> layout_size]

\* `end.offset_from(start) as usize`: the byte count from Data[0] to
\* req + bytes_returned, cast to usize.
payload_len(bytes_returned) == as_usize(bytes_returned - DataOffset)

\* What slice::from_raw_parts(start, len).to_owned() can do when the slice
\* does not lie in the allocation (undefined behaviour): the copy's allocation
\* of len > isize::MAX bytes panics and unwinds, or a build with the unsafe
\* precondition checks aborts. Neither reaches alloc::dealloc.
UBOutcomes == {"panic_capacity_overflow", "abort_unsafe_precondition"}

\* The match on GetLastError() of the failure path.
descriptor_error(err) ==
    IF err = ERROR_GEN_FAILURE
    THEN [ok |-> FALSE, kind |-> "Other",
          msg |-> "Descriptor request failed. Device might be suspended.", code |-> 0]
    ELSE [ok |-> FALSE, kind |-> "Os", msg |-> "", code |-> err]

\* The values the model's callers and the operating system give.
Ports == {1, 2}
DescriptorTypes == {1, 2}
DescriptorIndexes == {0, 3}
LanguageIds == {1033}
ErrorCodes == {ERROR_GEN_FAILURE, 87}
Addresses == {None} \cup {Some(p) : p \in Ports}

\* The get_descriptor calls one run may hold.
MaxCalls == 2

NoHub == [kind |-> "none", port_number |-> 0]
NoChild == [called |-> FALSE]

\* A caller opens a hub directly.
OpenHubHandle ==
    /\ hpc = "idle"
    /\ hub = NoHub
    /\ ~child.called
    /\ \E n_paths \in 0..1, open_ok \in BOOLEAN :
           LET h == by_devinst(n_paths, open_ok)
           IN  hub' = IF IsSome(h) THEN Unwrap(h) ELSE NoHub
    /\ UNCHANGED <<linux_vars, hpc, req, io, res, heap, calls, child>>

\* A caller resolves a child device to its hub port.
OpenHubPort ==
    /\ hpc = "idle"
    /\ hub = NoHub
    /\ ~child.called
    /\ \E has_parent \in BOOLEAN, n_paths \in 0..1, open_ok \in BOOLEAN,
          address \in Addresses :
           LET r == by_child_devinst(has_parent, n_paths, open_ok, address)
           IN  /\ child' = [called |-> TRUE, has_parent |-> has_parent,
                            n_paths |-> n_paths, open_ok |-> open_ok,
                            address |-> address, result |-> r]
               /\ hub' = IF r.ok THEN r.v ELSE NoHub
    /\ UNCHANGED <<linux_vars, hpc, req, io, res, heap, calls>>

\* get_descriptor up to the DeviceIoControl call: allocate the buffer, write
\* the request, hand it to the operating system.
IssueDescriptorRequest(port_number, descriptor_type, descriptor_index, language_id) ==
    /\ hpc \in {"idle", "returned"}
    /\ calls < MaxCalls
    /\ calls' = calls + 1
    /\ heap' = [heap EXCEPT !.allocs = @ + 1]
    /\ req' = Some(descriptor_request(port_number, descriptor_type,
                                      descriptor_index, language_id))
    /\ io' = None
    /\ res' = None
    /\ hpc' = "issued"
    /\ UNCHANGED <<linux_vars, hub, child>>

\* HubHandle::get_descriptor, the port number given by the caller.
HubHandleGetDescriptor ==
    /\ hub.kind = "handle"
    /\ \E p \in Ports, t \in DescriptorTypes, i \in DescriptorIndexes, l \in LanguageIds :
           IssueDescriptorRequest(p, t, i, l)

\* HubPort::get_descriptor, the port number fixed at construction.
HubPortGetDescriptor ==
    /\ hub.kind = "port"
    /\ \E t \in DescriptorTypes, i \in DescriptorIndexes, l \in LanguageIds :
           IssueDescriptorRequest(hub.port_number, t, i, l)

\* DeviceIoControl returns and get_descriptor runs to its end: the payload is
\* copied out or the error is built, then the buffer is released.
DescriptorRequestReturns ==
    /\ hpc = "issued"
    /\ \E r \in BOOLEAN, bytes_returned \in 0..layout_size, err \in ErrorCodes :
           /\ io' = Some([r |-> r, bytes_returned |-> IF r THEN bytes_returned ELSE 0,
                          err |-> IF r THEN 0 ELSE err])
           /\ IF r
              THEN LET len == payload_len(bytes_returned)
                   IN  IF usize_le(len, layout_size - DataOffset)
                       THEN /\ res' = Some([ok |-> TRUE, len |-> usize_value(len),
                                            first |-> DataOffset,
                                            last |-> DataOffset + usize_value(len)])
                            /\ heap' = [heap EXCEPT !.deallocs = @ + 1]
                            /\ hpc' = "returned"
                       ELSE /\ \E o \in UBOutcomes :
                                   res' = Some([ok |-> FALSE, kind |-> o, msg |-> "", code |-> 0])
                            /\ heap' = heap
                            /\ hpc' = "panicked"
              ELSE /\ res' = Some(descriptor_error(err))
                   /\ heap' = [heap EXCEPT !.deallocs = @ + 1]
                   /\ hpc' = "returned"
    /\ UNCHANGED <<linux_vars, hub, req, calls, child>>

(***************************************************************************)
(* The trees and inputs the specifications start from.                     *)
(***************************************************************************)

Line(t) == Append(t, "\n")

\* Entry names of /sys/bus/usb/devices: three devices, a root hub and an
\* interface.
N_1_6 == <<"1", "-", "6">>
N_1_6_4 == <<"1", "-", "6", ".", "4">>
N_2_1 == <<"2", "-", "1">>
N_usb1 == <<"u", "s", "b", "1">>
N_1_6_if == <<"1", "-", "6", ":", "1", ".", "0">>

DeviceNames == {N_1_6, N_1_6_4, N_2_1}
AllNames == DeviceNames \cup {N_usb1, N_1_6_if}

\* The text of a well-formed device's attribute files.
GoodText ==
    [a \in DevAttrNames |->
        CASE a = "busnum"          -> <<"1">>
          [] a = "devnum"          -> <<"5">>
          [] a = "devpath"         -> <<"6", ".", "4">>
          [] a = "idVendor"        -> <<"1", "d", "6", "b">>
          [] a = "idProduct"       -> <<"0", "0", "0", "2">>
          [] a = "bcdDevice"       -> <<"0", "6", "0", "1">>
          [] a = "bDeviceClass"    -> <<"0", "9">>
          [] a = "bDeviceSubClass" -> <<"0", "0">>
          [] a = "bDeviceProtocol" -> <<"0", "1">>
          [] a = "bMaxPacketSize0" -> <<"6", "4">>
          [] a = "speed"           -> <<"4", "8", "0">>
          [] a = "manufacturer"    -> <<"A", "c", "m", "e">>
          [] a = "product"         -> <<"H", "u", "b">>
          [] a = "serial"          -> <<"A", "1">>]

GoodIfText ==
    [a \in IfAttrNames |->
        CASE a = "bInterfaceNumber"   -> <<"0", "0">>
          [] a = "bInterfaceClass"    -> <<"0", "9">>
          [] a = "bInterfaceSubClass" -> <<"0", "0">>
          [] a = "bInterfaceProtocol" -> <<"0", "0">>
          [] a = "interface"          -> <<"I", "f">>]

GoodDevAttrs == [a \in DevAttrNames |-> File(Line(GoodText[a]))]
GoodIfAttrs == [a \in IfAttrNames |-> File(Line(GoodIfText[a]))]
NoDevAttrs == [a \in DevAttrNames |-> NoFile]
NoIfAttrs == [a \in IfAttrNames |-> NoFile]

\* Text no numeric grammar accepts.
Garbage == File(<<"z", "z", "\n">>)

IfDirName(n, i) == n \o <<":", "1", ".", LowerDigits[i + 1]>>
PowerDirName == <<"p", "o", "w", "e", "r">>

\* A well-formed device directory: its attributes, one interface and the
\* power subdirectory.
GoodDir(n) ==
    [attrs |-> GoodDevAttrs,
     kids |-> (IfDirName(n, 0) :> GoodIfAttrs) @@ (PowerDirName :> NoIfAttrs)]

\* The root's interface entry holds no device attribute.
InterfaceEntryDir == [attrs |-> NoDevAttrs, kids |-> <<>>]

DefaultDir(n) == IF n = N_1_6_if THEN InterfaceEntryDir ELSE GoodDir(n)

\* The sequences of at most n distinct elements of S.
DistinctSeqs(S, n) ==
    UNION {{q \in [1..m -> S] : \A i, j \in 1..m : i # j => q[i] # q[j]} : m \in 0..n}

HubStart ==
    /\ hub = NoHub
    /\ hpc = "idle"
    /\ req = None
    /\ io = None
    /\ res = None
    /\ heap = [allocs |-> 0, deallocs |-> 0]
    /\ calls = 0
    /\ child = NoChild

\* list_devices is called on the tree fs whose root enumerates as r.
LinuxStartGiven(r, fs, g) ==
    /\ given = g
    /\ sysfs = fs
    /\ root = r
    /\ dirents = r
    /\ pc = "list"
    /\ probe = IdleProbe
    /\ out = <<>>
    /\ warned = <<>>
    /\ probed = {}
    /\ reads = [n \in AllNames |-> 0]
    /\ unplugged = [n \in AllNames |-> -1]

LinuxStart(r, fs) == LinuxStartGiven(r, fs, <<>>)

NextList ==
    \/ ReadDirNext
    \/ ProbeReadAttr
    \/ ProbeReadChildren
    \/ ProbeReadInterface
    \/ ProbeFinish

\* --- SpecList: a root of several entries, some devices with a bad idVendor.

\* The entries one root may hold.
MaxEntries == 3

EntryPool == {Some(n) : n \in AllNames} \cup {None}

VendorStates == {File(Line(GoodText["idVendor"])), NoFile, Garbage}

InitList ==
    /\ HubStart
    /\ \E r \in DistinctSeqs(EntryPool, MaxEntries) :
       \E vendor \in [DeviceNames -> VendorStates] :
           /\ \A n \in DeviceNames :
                  (\A i \in DOMAIN r : r[i] # Some(n)) => vendor[n] = GoodDevAttrs["idVendor"]
           /\ LinuxStart(r, [n \in AllNames |->
                  IF n \in DeviceNames
                  THEN [DefaultDir(n) EXCEPT !.attrs["idVendor"] = vendor[n]]
                  ELSE DefaultDir(n)])

SpecList == InitList /\ [][NextList]_vars

\* --- SpecUnplug: a root of two devices and a root hub, all well-formed, and
\* a device that may vanish at any moment.

UnplugRoot == {Some(N_1_6), Some(N_2_1), Some(N_usb1)}

InitUnplug ==
    /\ HubStart
    /\ \E r \in Perms(UnplugRoot) :
           LinuxStart(r, [n \in AllNames |-> DefaultDir(n)])

NextUnplug ==
    \/ NextList
    \/ Unplug

SpecUnplug == InitUnplug /\ [][NextUnplug]_vars

\* --- SpecHub: a caller opens a hub or a hub port and requests descriptors.

InitHub ==
    /\ HubStart
    /\ LinuxStart(<<>>, [n \in AllNames |-> DefaultDir(n)])

NextHub ==
    \/ OpenHubHandle
    \/ OpenHubPort
    \/ HubHandleGetDescriptor
    \/ HubPortGetDescriptor
    \/ DescriptorRequestReturns

SpecHub == InitHub /\ [][NextHub]_vars
\* --- SpecProbe: one device, some of whose attribute files are missing or
\* hold garbage.

\* The attribute files of one run that are faulty.
MaxFaults == 2

FaultSites ==
    {<<"dev", a>> : a \in DevAttrNames} \cup {<<"if", a>> : a \in IfAttrNames}

RECURSIVE BoundedSubsets(_, _)
BoundedSubsets(S, n) ==
    IF n = 0 THEN {{}}
    ELSE LET prev == BoundedSubsets(S, n - 1)
         IN  prev \cup {p \cup {e} : p \in prev, e \in S}

\* The well-formed device n with the files of `faults` (site -> content)
\* replaced.
FaultyDir(n, faults) ==
    [attrs |-> [a \in DevAttrNames |->
                   IF <<"dev", a>> \in DOMAIN faults THEN faults[<<"dev", a>>]
                   ELSE GoodDevAttrs[a]],
     kids |-> (IfDirName(n, 0) :>
                   [a \in IfAttrNames |->
                       IF <<"if", a>> \in DOMAIN faults THEN faults[<<"if", a>>]
                       ELSE GoodIfAttrs[a]])
              @@ (PowerDirName :> NoIfAttrs)]

InitProbe ==
    /\ HubStart
    /\ \E F \in BoundedSubsets(FaultSites, MaxFaults) :
       \E faults \in [F -> {NoFile, Garbage}] :
           LinuxStart(<<Some(N_1_6)>>,
                      [n \in AllNames |->
                          IF n = N_1_6 THEN FaultyDir(n, faults) ELSE DefaultDir(n)])

SpecProbe == InitProbe /\ [][NextList]_vars

\* --- SpecPortChain: one well-formed device whose devpath file is missing or
\* holds segments joined with '.'.

\* The segments one devpath may hold.
MaxSegs == 3

SegPool ==
    {<<"1">>, <<"6">>, <<"4">>, <<"2", "5", "5">>, <<"2", "5", "6">>, <<>>,
     <<"x">>, <<"+", "3">>}

RECURSIVE JoinDots(_)
JoinDots(segs) ==
    IF segs = <<>> THEN <<>>
    ELSE IF Len(segs) = 1 THEN segs[1]
    ELSE segs[1] \o <<".">> \o JoinDots(Tail(segs))

SegSeqs == UNION {[1..m -> SegPool] : m \in 1..MaxSegs}

InitPortChain ==
    /\ HubStart
    /\ \E g \in {None} \cup {Some(q) : q \in SegSeqs} :
           LinuxStartGiven(<<Some(N_1_6)>>,
               [n \in AllNames |->
                   IF n = N_1_6
                   THEN [GoodDir(n) EXCEPT !.attrs["devpath"] =
                            IF IsSome(g) THEN File(Line(JoinDots(Unwrap(g)))) ELSE NoFile]
                   ELSE DefaultDir(n)],
               g)

SpecPortChain == InitPortChain /\ [][NextList]_vars

\* --- SpecIfaces: one well-formed device with several interface
\* subdirectories, whose bInterfaceNumber files vary.

\* The interface subdirectories one device may hold.
MaxKids == 3

NumberFiles ==
    {File(<<"0", "2", "\n">>), File(<<"0", "1", "\n">>), File(<<"0", "a", "\n">>), NoFile}

InitIfaces ==
    /\ HubStart
    /\ \E m \in 0..MaxKids :
       \E numbers \in [0..(m - 1) -> NumberFiles] :
           LinuxStart(<<Some(N_1_6)>>,
               [n \in AllNames |->
                   IF n = N_1_6
                   THEN [attrs |-> GoodDevAttrs,
                         kids |-> [d \in {IfDirName(n, i) : i \in 0..(m - 1)} |->
                                      LET i == CHOOSE i \in 0..(m - 1) : IfDirName(n, i) = d
                                      IN  [GoodIfAttrs EXCEPT !["bInterfaceNumber"] = numbers[i]]]
                                  @@ (PowerDirName :> NoIfAttrs)]
                   ELSE DefaultDir(n)])

SpecIfaces == InitIfaces /\ [][NextList]_vars
(***************************************************************************)
(* Properties.                                                             *)
(***************************************************************************)

\* list_devices has run through the whole root.
Done == pc = "list" /\ dirents = <<>>

OutPaths == {out[i].path : i \in DOMAIN out}
WarnedPaths == {warned[i].path : i \in DOMAIN warned}
InRoot(n) == \E i \in DOMAIN root : root[i] = Some(n)
VendorFile(n) == sysfs[n].attrs["idVendor"]

\* C1: once list_devices has run through the root, every device entry of the
\* root whose idVendor file is missing or not hexadecimal is absent from the
\* output (its error, on its idVendor path, was logged), and every device
\* entry whose attributes all read and parse is in the output, in whatever
\* order the root was enumerated.
C1_BadDeviceDroppedOthersYielded ==
    Done =>
        \A n \in DeviceNames :
            InRoot(n) =>
                /\ VendorFile(n) \in {NoFile, Garbage} =>
                       /\ n \notin OutPaths
                       /\ <<n, "idVendor">> \in WarnedPaths
                /\ VendorFile(n) = File(<<"1", "d", "6", "b", "\n">>) =>
                       /\ n \in OutPaths
                       /\ \A i \in DOMAIN warned : warned[i].path[1] # n

\* A root enumerated as: a device that fails its probe, then two devices
\* that pass, both yielded.
C1_Witness ==
    /\ Done
    /\ Len(root) = 3
    /\ root[1] = Some(N_1_6)
    /\ VendorFile(N_1_6) = NoFile
    /\ N_1_6 \notin OutPaths
    /\ OutPaths = {N_1_6_4, N_2_1}

\* C8: every record list_devices yields comes from an entry named with
\* digits, '-' and '.' only; the root hub entry usb1 and the interface entry
\* 1-6:1.0 are never handed to probe_device, never yielded and never logged.
C8_OnlyDeviceNamesProbed ==
    /\ \A i \in DOMAIN out :
           \A c \in DOMAIN out[i].path :
               out[i].path[c] \in
                   {"0", "1", "2", "3", "4", "5", "6", "7", "8", "9", "-", "."}
    /\ probed \cap {N_usb1, N_1_6_if} = {}
    /\ OutPaths \cap {N_usb1, N_1_6_if} = {}
    /\ \A i \in DOMAIN warned : warned[i].path[1] \notin {N_usb1, N_1_6_if}

\* A root holding the root hub, the interface entry and one device: only the
\* device was probed and yielded.
C8_Witness ==
    /\ Done
    /\ InRoot(N_usb1)
    /\ InRoot(N_1_6_if)
    /\ InRoot(N_2_1)
    /\ probed = {N_2_1}
    /\ OutPaths = {N_2_1}
\* The nine attributes the probe cannot do without.
NineRequired ==
    {"busnum", "devnum", "idVendor", "idProduct", "bcdDevice", "bDeviceClass",
     "bDeviceSubClass", "bDeviceProtocol", "bMaxPacketSize0"}

DevFile(a) == sysfs[N_1_6].attrs[a]
IfFile(a) == sysfs[N_1_6].kids[IfDirName(N_1_6, 0)][a]
DevFaulty(a) == DevFile(a) # File(Line(GoodText[a]))
IfFaulty(a) == IfFile(a) # File(Line(GoodIfText[a]))

\* C9: probe_device returns a record exactly when none of the nine required
\* attributes is missing or malformed; when it fails, the one error names the
\* path of a faulty required attribute with the kind of its fault, and no
\* required attribute read before it was faulty; a fault in devpath, speed,
\* manufacturer, product, serial, the interface string or a required
\* interface field never fails the probe: the field is absent, the port chain
\* empty, or the interface subdirectory left out.
C9_RequiredAbortOptionalAbsent ==
    Done =>
        /\ (Len(out) = 1) <=> (\A a \in NineRequired : ~DevFaulty(a))
        /\ Len(out) + Len(warned) = 1
        /\ Len(warned) = 1 =>
               LET e == warned[1]
               IN  /\ e.path[1] = N_1_6
                   /\ e.path[2] \in NineRequired
                   /\ DevFaulty(e.path[2])
                   /\ e.kind = (IF DevFile(e.path[2]) = NoFile THEN "Io" ELSE "Parse")
                   /\ \A i, j \in DOMAIN ReadOrder :
                          (ReadOrder[j].name = e.path[2] /\ i < j
                               /\ ReadOrder[i].name \in NineRequired)
                              => ~DevFaulty(ReadOrder[i].name)
        /\ Len(out) = 1 =>
               LET d == out[1]
               IN  /\ DevFaulty("devpath") => d.port_chain = <<>>
                   /\ DevFile("speed") = NoFile => d.speed = None
                   /\ DevFile("manufacturer") = NoFile => d.manufacturer_string = None
                   /\ DevFile("product") = NoFile => d.product_string = None
                   /\ DevFile("serial") = NoFile => d.serial_number = None
                   /\ (\E a \in IfAttrNames \ {"interface"} : IfFaulty(a))
                          <=> d.interfaces = <<>>
                   /\ Len(d.interfaces) <= 1
                   /\ (Len(d.interfaces) = 1 /\ IfFile("interface") = NoFile)
                          => d.interfaces[1].interface_string = None

\* A device whose speed file is missing and whose interface has a malformed
\* class: the probe succeeded, without a speed and without the interface.
C9_Witness ==
    /\ Done
    /\ DevFile("speed") = NoFile
    /\ IfFile("bInterfaceClass") = Garbage
    /\ Len(out) = 1
    /\ out[1].speed = None
    /\ out[1].interfaces = <<>>
    /\ out[1].vendor_id = 7531

\* What each devpath segment of SegPool is as an 8-bit decimal integer.
ExpectedHop(seg) ==
    CASE seg = <<"1">>           -> Some(1)
      [] seg = <<"6">>           -> Some(6)
      [] seg = <<"4">>           -> Some(4)
      [] seg = <<"2", "5", "5">> -> Some(255)
      [] seg = <<"+", "3">>      -> Some(3)
      [] OTHER                   -> None

ExpectedChain(g) ==
    IF ~IsSome(g) THEN <<>>
    ELSE IF \A i \in DOMAIN Unwrap(g) : IsSome(ExpectedHop(Unwrap(g)[i]))
    THEN [i \in DOMAIN Unwrap(g) |-> Unwrap(ExpectedHop(Unwrap(g)[i]))]
    ELSE <<>>

\* C7: the probe of a device succeeds whatever its devpath file holds, and
\* its port chain is the integers of all the '.'-separated segments, in
\* order, when the file is readable and every segment is an 8-bit decimal
\* integer, and empty otherwise (file missing; a segment empty, non-numeric
\* or above 255): never a proper prefix.
C7_PortChainAllOrNothing ==
    Done =>
        /\ Len(out) = 1
        /\ warned = <<>>
        /\ out[1].port_chain = ExpectedChain(given)

\* devpath "1.6.4" gave [1, 6, 4].
C7_Witness ==
    /\ Done
    /\ given = Some(<< <<"1">>, <<"6">>, <<"4">> >>)
    /\ Len(out) = 1
    /\ out[1].port_chain = <<1, 6, 4>>

\* What each bInterfaceNumber file of NumberFiles holds.
ExpectedNumber(f) ==
    CASE f = File(<<"0", "2", "\n">>) -> Some(2)
      [] f = File(<<"0", "1", "\n">>) -> Some(1)
      [] f = File(<<"0", "a", "\n">>) -> Some(10)
      [] OTHER                        -> None

InterfaceDirs == {d \in DOMAIN sysfs[N_1_6].kids : d # PowerDirName}
NumberFileOf(d) == sysfs[N_1_6].kids[d]["bInterfaceNumber"]

\* C6: in every record yielded, the interfaces are in non-decreasing order of
\* interface number, and each number appears as many times as there are
\* interface subdirectories reporting it (duplicates are kept), whatever the
\* order in which the subdirectories were enumerated.
C6_InterfacesSorted ==
    \A r \in DOMAIN out :
        LET ifs == out[r].interfaces
        IN  /\ \A i \in 1..(Len(ifs) - 1) :
                   ifs[i].interface_number <= ifs[i + 1].interface_number
            /\ \A v \in {1, 2, 10} :
                   Cardinality({i \in DOMAIN ifs : ifs[i].interface_number = v})
                       = Cardinality({d \in InterfaceDirs :
                                          ExpectedNumber(NumberFileOf(d)) = Some(v)})
            /\ \A i \in DOMAIN ifs : ifs[i].interface_number \in {1, 2, 10}

\* Three interface subdirectories reporting 2, 1 and 1: the record holds
\* 1, 1, 2.
C6_Witness ==
    /\ Done
    /\ Len(out) = 1
    /\ Len(out[1].interfaces) = 3
    /\ NumberFileOf(IfDirName(N_1_6, 0)) = File(<<"0", "2", "\n">>)
    /\ out[1].interfaces[1].interface_number = 1
    /\ out[1].interfaces[2].interface_number = 1
    /\ out[1].interfaces[3].interface_number = 2
\* The device-level reads up to the last required one (bMaxPacketSize0).
LastRequiredRead ==
    CHOOSE i \in DOMAIN ReadOrder :
        /\ ReadOrder[i].required
        /\ \A j \in DOMAIN ReadOrder : ReadOrder[j].required => j <= i

IoErrorOn(n) ==
    \E i \in DOMAIN warned : warned[i].path[1] = n /\ warned[i].kind = "Io"

\* C4 as stated: a device that vanished before its probe had done all of its
\* device-level reads (so before the probe's last attribute read) is absent
\* from the output.
C4_Original ==
    Done =>
        \A n \in DeviceNames :
            (InRoot(n) /\ unplugged[n] >= 0 /\ unplugged[n] < Len(ReadOrder))
                => n \notin OutPaths

\* C4, amended: a device that vanished before its probe had read its last
\* required attribute is absent from the output and an IO error on one of its
\* attributes was logged; a device that vanished later, or not at all, is in
\* the output, and if it vanished before the interfaces were read the record
\* holds none; in every case list_devices runs through the whole root and
\* every device entry ends either yielded or logged.
C4_DroppedIffVanishedBeforeLastRequired ==
    Done =>
        \A n \in DeviceNames :
            InRoot(n) =>
                /\ (unplugged[n] >= 0 /\ unplugged[n] < LastRequiredRead) =>
                       /\ n \notin OutPaths
                       /\ IoErrorOn(n)
                /\ (unplugged[n] = -1 \/ unplugged[n] >= LastRequiredRead) =>
                       /\ n \in OutPaths
                       /\ ~IoErrorOn(n)
                /\ (unplugged[n] >= LastRequiredRead /\ unplugged[n] < Len(ReadOrder)) =>
                       \A i \in DOMAIN out :
                           out[i].path = n =>
                               out[i].interfaces = <<>> /\ out[i].serial_number = None
                /\ n \in probed

\* The first device of the root vanished after three of its reads: it was
\* dropped on an IO error and the device after it was still yielded.
C4_Witness ==
    /\ Done
    /\ root[1] = Some(N_1_6)
    /\ unplugged[N_1_6] = 3
    /\ N_1_6 \notin OutPaths
    /\ IoErrorOn(N_1_6)
    /\ N_2_1 \in OutPaths
Returned == hpc \in {"returned", "panicked"}
Succeeded == Returned /\ Unwrap(io).r

Clamp(v, lo, hi) == IF v < lo THEN lo ELSE IF v > hi THEN hi ELSE v

\* C2: after a successful DeviceIoControl reporting any bytes_returned from 0
\* to the buffer size, get_descriptor returns a payload whose length is
\* bytes_returned minus the payload offset, clamped to [0, allocated payload
\* region], read from inside the buffer and not before the payload start.
C2_PayloadLengthClamped ==
    Succeeded =>
        /\ Unwrap(res).ok
        /\ Unwrap(res).len
               = Clamp(Unwrap(io).bytes_returned - DataOffset, 0, layout_size - DataOffset)
        /\ Unwrap(res).first >= DataOffset
        /\ Unwrap(res).last <= layout_size

\* C3: every get_descriptor call that has ended, by a return or otherwise,
\* has released the buffer it allocated, once: releases never exceed
\* allocations and equal them whenever no call is in progress.
C3_BufferReleasedOnce ==
    /\ heap.deallocs <= heap.allocs
    /\ hpc = "issued" => heap.allocs = heap.deallocs + 1
    /\ hpc # "issued" => heap.allocs = heap.deallocs

\* C5: every descriptor request handed to DeviceIoControl, through a
\* HubHandle or a HubPort, asks for at most 4095 bytes, and for a length the
\* 16-bit wLength field holds without truncation.
C5_RequestLengthAtMost4095 ==
    IsSome(req) =>
        /\ Unwrap(req).wLength <= 4095
        /\ Unwrap(req).wLength = Unwrap(req).nOutBufferSize - SizeOfRequest

\* A request issued through a HubPort, of length 4095.
C5_Witness ==
    /\ hpc = "issued"
    /\ hub.kind = "port"
    /\ IsSome(req)
    /\ Unwrap(req).wLength = 4095
    /\ Unwrap(req).ConnectionIndex = hub.port_number

ParentOpens == child.n_paths > 0 /\ child.open_ok

\* C10 as stated: each of the three conditions yields its own error whenever
\* it applies; in particular a child with a parent and no port-number
\* property is reported "not connected".
C10_Original ==
    child.called =>
        /\ ~child.has_parent => child.result.msg = "failed to find parent hub"
        /\ (child.has_parent /\ ~ParentOpens)
               => child.result.msg = "failed to open parent hub"
        /\ (child.has_parent /\ ~IsSome(child.address))
               => (~child.result.ok /\ child.result.kind = "NotConnected")

\* C10, amended: the three failures are tested in this order and the first
\* that applies is reported: no parent gives "failed to find parent hub";
\* else a parent whose hub cannot be opened gives "failed to open parent
\* hub"; else an absent port-number property gives the NotConnected error,
\* which differs in kind from the other two; otherwise the call succeeds with
\* the property's value as the port number.
C10_FirstFailureReported ==
    child.called =>
        LET r == child.result
        IN  /\ ~child.has_parent =>
                   (~r.ok /\ r.kind = "Other" /\ r.msg = "failed to find parent hub")
            /\ (child.has_parent /\ ~ParentOpens) =>
                   (~r.ok /\ r.kind = "Other" /\ r.msg = "failed to open parent hub")
            /\ (child.has_parent /\ ParentOpens /\ ~IsSome(child.address)) =>
                   (~r.ok /\ r.kind = "NotConnected")
            /\ (child.has_parent /\ ParentOpens /\ IsSome(child.address)) =>
                   (r.ok /\ r.v.port_number = Unwrap(child.address) /\ hub = r.v)
            /\ ~r.ok => hub = NoHub

\* A child with a parent hub that opens and no port-number property:
\* reported as not connected.
C10_Witness ==
    /\ child.called
    /\ child.has_parent
    /\ ParentOpens
    /\ ~IsSome(child.address)
    /\ ~child.result.ok
    /\ child.result.kind = "NotConnected"
====
